---- MODULE Spec2Model ----
(***************************************************************************)
(* The transition engine of svelte-state-machine 4.0.0: _stateMachine and  *)
(* its dispatch function (src/unnamed/part_000, lines 331-442).            *)
(*                                                                         *)
(* One engine instance is modelled.  The two svelte stores are the         *)
(* variables state and transitioning; the promise a transition function    *)
(* returns is a task record whose underlying computation settles in its    *)
(* own step (Settle) and whose then-handlers run in a later step (Then),   *)
(* in the order the reactions were queued (the job queue of promises).     *)
(* The user's callbacks (transition functions, hooks, onError) are inputs: *)
(* what they return is drawn from small sets, and every call the engine    *)
(* makes to one of them is written to log with its arguments, as a mock    *)
(* would record it.                                                        *)
(***************************************************************************)
EXTENDS Integers, Sequences, FiniteSets, TLC

\* Number of promises returned by transition functions whose handler has not
\* run yet that there may be at a time.
MaxTasks == 2

\* ------------------------------------------------------------- values

StateTypes == {"idle", "busy", "done"}
\* State extends { type: string }
States == [type : StateTypes]
NoState == [type |-> "none"]

ActionTypes == {"go", "stop"}
\* Action extends { type: string }.
Actions == [type : ActionTypes]
NoAction == [type |-> "none"]

\* The states the onAsyncTransition hook answers with, when it answers one,
\* and those onError answers with.
Loading == {[type |-> "busy"]}
Recovered == {[type |-> "idle"], [type |-> "done"]}

\* What a transition function throws or its promise rejects with.
Errors == {"fail"}
NoError == "none"
\* new DOMException(signal.reason, "AbortError")
AbortError == "AbortError"

\* A test that takes no error for an abort.
isAbortErrorNever(error) == FALSE

\* error instanceof DOMException && error.name == "AbortError"
isAbortError(error) == error = AbortError

\* ------------------------------------------------------ configuration

\* machine[stateType]?.[actionType]: the pairs that have a transition
\* function.  No state handles "stop", and "done" has no entry in the
\* machine object at all.
Registered(stateType, actionType) ==
    stateType \in {"idle", "busy"} /\ actionType = "go"

\* Object.keys(machine)
MachineKeys == {t \in StateTypes : \E a \in ActionTypes : Registered(t, a)}

VARIABLES
    given,            \* the options the constructor was called with
    asyncMode,        \* asyncMode as destructured: "block" | "abort"
    hasOnError,       \* whether option onError is given
    hasHooks,         \* whether option hooks is given
    is,               \* the derived stores `is`, one per key of machine
    state,            \* the store `state`
    transitioning,    \* the store `transitioning` and its mirror $transitioning
    abortController,  \* the task abortController was made for; 0: undefined,
                      \* or the handler of that task has run (abort() is void)
    tasks,            \* the promises whose then-handler has not run yet
    jobs,             \* queued promise reactions: tasks whose handler is due
    last,             \* the operation that ran last, with what it was given
    log               \* the calls and store writes of that operation, in order

vars == <<given, asyncMode, hasOnError, hasHooks, is, state, transitioning,
          abortController, tasks, jobs, last, log>>

\* hooks?.[stateType] ?? {}: which hooks each state type defines, when the
\* option hooks is given.
HasHook(stateType, hook) ==
    /\ hasHooks
    /\ \/ stateType = "idle" /\ hook \in {"onExit", "onEnter", "onAsyncTransition"}
       \/ stateType = "busy" /\ hook \in {"onExit", "onEnter"}

\* Derived stores that all compare with the same key.
IsOneKey(st) == [type \in MachineKeys |-> st.type = "idle"]

\* Object.fromEntries(Object.keys(machine).map(type =>
\*     [type, derived(state, $state => $state.type == type)]))
\* as the derived stores read when the store state holds st.
Is(st) == [type \in MachineKeys |-> st.type = type]

engine == <<state, transitioning, abortController, tasks, jobs>>

\* ------------------------------------------------------- log entries

\* One call of a callback, or one store write, as observed when it happens:
\* pub is the value of the state store and flag the value of the
\* transitioning store at that moment (for a write: the value written).
Ev(kind, s1, s2, act, err, ret, pub, flag) ==
    [kind |-> kind, s1 |-> s1, s2 |-> s2, act |-> act, err |-> err,
     ret |-> ret, pub |-> pub, flag |-> flag]

\* reducer($state, $action), returning ret or throwing err (neither: it
\* returned a promise)
CallReducer(S, A, ret, err, flag) ==
    <<Ev("reducer", S, NoState, A, err, ret, S, flag)>>

\* state.set(v) / the value state.update's callback returns
Publish(v, flag) ==
    <<Ev("publish", NoState, NoState, NoAction, NoError, v, v, flag)>>

\* transitioning.set(b)
SetTransitioning(b, pub) ==
    <<Ev("transitioning", NoState, NoState, NoAction, NoError, NoState, pub, b)>>

\* onExit?.($state, next, $action), onExit taken from hooks[stateType]
CallOnExit(S, next, A, pub, flag) ==
    IF HasHook(S.type, "onExit")
    THEN <<Ev("onExit", S, next, A, NoError, NoState, pub, flag)>>
    ELSE <<>>

\* onEnter?.($state, next, $action), onEnter taken from hooks[next.type]
CallOnEnter(S, next, A, pub, flag) ==
    IF HasHook(next.type, "onEnter")
    THEN <<Ev("onEnter", S, next, A, NoError, NoState, pub, flag)>>
    ELSE <<>>

\* onAsyncTransition?.($state, $action), returning l (NoState: undefined)
CallOnAsyncTransition(S, A, l, pub, flag) ==
    IF HasHook(S.type, "onAsyncTransition")
    THEN <<Ev("onAsyncTransition", S, NoState, A, NoError, l, pub, flag)>>
    ELSE <<>>

\* onError(error, $state, $action), returning oe
CallOnError(error, S, A, oe, pub, flag) ==
    <<Ev("onError", S, NoState, A, error, oe, pub, flag)>>

\* ------------------------------------------------------------ promises

\* The promise `next` of one async transition with what its then-handlers
\* close over: $state (S) and $action (A).  out is the promise the handlers
\* are attached to (the returned promise itself in block mode, abortable(p,
\* signal) in abort mode): "pending", "fulfilled", "rejected", or "aborted"
\* when the abort listener rejected it.  The value or error a promise
\* settles with is read by nothing before its handler runs, so it is drawn
\* there (Then).  aborted is the signal of the task's controller, and
\* loadingState what onAsyncTransition returned for it (NoState: undefined).
NewTask(S, A, l) ==
    [S |-> S, A |-> A, loadingState |-> l, aborted |-> FALSE, out |-> "pending"]

\* A promise rejected by its abort listener: its handler reads nothing of
\* the closure (it returns at isAbortError).
Cancelled(t) ==
    [S |-> NoState, A |-> NoAction, loadingState |-> NoState, aborted |-> TRUE,
     out |-> "aborted"]

\* abortController?.abort(): the abort listener of abortable() rejects the
\* raced promise with an AbortError; Promise.race keeps the first settlement,
\* so this decides `out` only when p has not settled before.  c = 0: there
\* is no controller, or the handler of its promise has run.
Aborted(ts, js, c) ==
    IF c = 0 \/ ts[c].aborted
    THEN [tasks |-> ts, jobs |-> js]
    ELSE IF ts[c].out = "pending"
    THEN [tasks |-> [ts EXCEPT ![c] = Cancelled(@)], jobs |-> Append(js, c)]
    ELSE [tasks |-> [ts EXCEPT ![c].aborted = TRUE], jobs |-> js]

\* tasks holds the promises whose handler has not run, oldest first; jobs
\* and abortController name them by position.  When the handler of task i
\* has run the task is dropped and the positions behind it move up.
Moved(k, i) == IF k = i THEN 0 ELSE IF k > i THEN k - 1 ELSE k

Dropped(ts, i) == [k \in 1..(Len(ts) - 1) |-> IF k < i THEN ts[k] ELSE ts[k + 1]]

MovedAll(js, i) == [k \in 1..Len(js) |-> Moved(js[k], i)]

\* --------------------------------------------------- results of callbacks

\* What a call of a transition function can do: return a state, throw, or
\* return a promise.
Value(v) == [kind |-> "value", val |-> v, err |-> NoError]
Throw(e) == [kind |-> "throw", val |-> NoState, err |-> e]
Promise == [kind |-> "promise", val |-> NoState, err |-> NoError]
ReducerResults ==
    {Value(v) : v \in States} \cup {Throw(e) : e \in Errors} \cup {Promise}

\* let next = reducer?.($state, $action) ?? $state
Reduce(S, A, r) == IF Registered(S.type, A.type) THEN r ELSE Value(S)

\* What one operation did to the two stores, what it called, and how it ended.
Effect(st, tr, lg, result, err) ==
    [state |-> st, transitioning |-> tr, log |-> lg, result |-> result, err |-> err]

\* ------------------------------------------------------------- dispatch

\* A dispatch that never takes the early return of block mode.
BlockedNever(flag) == FALSE

\* An early return taken in the other mode.
BlockedInAbort(flag) == flag /\ asyncMode = "abort"

\* if ($transitioning) switch (asyncMode) { case "block": return }
Blocked(flag) == flag /\ asyncMode = "block"

\* if ($transitioning) switch (asyncMode) { case "abort": abortController?.abort() }
AbortPending(flag, ts, js, c) ==
    IF flag /\ asyncMode = "abort" THEN Aborted(ts, js, c)
    ELSE [tasks |-> ts, jobs |-> js]

\* The else branch with the two hook calls in the other order.
SyncPathEnterFirst(S, next, A, flag) ==
    Effect(next, flag,
           CallOnEnter(S, next, A, S, flag) \o CallOnExit(S, next, A, S, flag)
               \o Publish(next, flag),
           "returned", NoError)

\* An else branch that calls the hooks only when the type changes.
SyncPathSkipsSelf(S, next, A, flag) ==
    Effect(next, flag,
           (IF next.type = S.type THEN <<>>
            ELSE CallOnExit(S, next, A, S, flag) \o CallOnEnter(S, next, A, S, flag))
               \o Publish(next, flag),
           "returned", NoError)

\* The else branch of `next instanceof Promise`: the hooks, then the value
\* state.update publishes.
SyncPath(S, next, A, flag) ==
    Effect(next, flag,
           CallOnExit(S, next, A, S, flag) \o CallOnEnter(S, next, A, S, flag)
               \o Publish(next, flag),
           "returned", NoError)

\* A catch block that rethrows whether or not onError is given.
CatchPathRethrows(error, S, A, oe, flag) == Effect(S, flag, <<>>, "threw", error)

\* A catch block that calls onError and keeps the state it started from.
CatchPathDropsAnswer(error, S, A, oe, flag) ==
    IF hasOnError
    THEN Effect(S, flag, CallOnError(error, S, A, oe, S, flag) \o Publish(S, flag),
                "returned", NoError)
    ELSE Effect(S, flag, <<>>, "threw", error)

\* catch (error) { if (onError) return onError(error, $state, $action)
\*                 else throw error }
CatchPath(error, S, A, oe, flag) ==
    IF hasOnError
    THEN Effect(oe, flag, CallOnError(error, S, A, oe, S, flag) \o Publish(oe, flag),
                "returned", NoError)
    ELSE Effect(S, flag, <<>>, "threw", error)

\* loadingState ?? $state
Shown(S, l) ==
    IF HasHook(S.type, "onAsyncTransition") /\ l # NoState THEN l ELSE S

\* An async branch that treats the interim state as a transition: it calls
\* onExit of the starting state and onEnter of the state it publishes.
AsyncPathFiresHooks(S, A, l, flag) ==
    Effect(Shown(S, l), TRUE,
           SetTransitioning(TRUE, S) \o CallOnAsyncTransition(S, A, l, S, TRUE)
               \o CallOnExit(S, Shown(S, l), A, S, TRUE)
               \o CallOnEnter(S, Shown(S, l), A, S, TRUE)
               \o Publish(Shown(S, l), TRUE),
           "returned", NoError)

\* The branch of `next instanceof Promise`, up to the value published.
AsyncPath(S, A, l, flag) ==
    Effect(Shown(S, l), TRUE,
           SetTransitioning(TRUE, S) \o CallOnAsyncTransition(S, A, l, S, TRUE)
               \o Publish(Shown(S, l), TRUE),
           "returned", NoError)

\* if (asyncMode == "abort") { abortController = new AbortController() ... }
NewController(c, id) == IF asyncMode = "abort" THEN id ELSE c

\* The record of one operation: which it was, what it was given (the action,
\* the state read or captured, the task, how its promise settled, the value
\* or the error it met), how it ended, and the two stores before it.
Op(op, path, A, S, id, out, val, err, aborted, result, pre) ==
    [op |-> op, path |-> path, A |-> A, S |-> S, id |-> id, out |-> out,
     val |-> val, err |-> err, aborted |-> aborted, result |-> result,
     pre |-> pre]

Pre == [state |-> state, transitioning |-> transitioning]

\* Which way dispatch($action) goes when the transition function answers r.
Path(S, A, r, flag) ==
    IF Blocked(flag) THEN "discarded"
    ELSE IF ~Registered(S.type, A.type) THEN "missing"
    ELSE IF r.kind = "promise" THEN "async"
    ELSE IF r.kind = "throw" THEN "throw" ELSE "sync"

\* dispatch($action), the transition function answering r, onAsyncTransition
\* answering l and onError answering oe when they are called.
Dispatch(A, r, l, oe) ==
    LET S == state
        flag == transitioning
        next == Reduce(S, A, r)
        path == Path(S, A, r, flag)
        runs == path # "discarded"
        called == IF Registered(S.type, A.type)
                  THEN CallReducer(S, A, r.val, r.err, flag) ELSE <<>>
        ab == AbortPending(flag, tasks, jobs, abortController)
        id == IF path = "async" THEN Len(tasks) + 1 ELSE 0
        eff == CASE path = "discarded" -> Effect(S, flag, <<>>, "returned", NoError)
                 [] path = "async" -> AsyncPath(S, A, l, flag)
                 [] path = "throw" -> CatchPath(next.err, S, A, oe, flag)
                 [] OTHER -> SyncPath(S, next.val, A, flag)
    IN  /\ path = "async" => Len(tasks) < MaxTasks
        /\ state' = eff.state
        /\ transitioning' = eff.transitioning
        /\ log' = IF runs THEN called \o eff.log ELSE <<>>
        /\ tasks' = IF path = "async"
                    THEN Append(ab.tasks, NewTask(S, A, l))
                    ELSE IF runs THEN ab.tasks ELSE tasks
        /\ jobs' = IF runs THEN ab.jobs ELSE jobs
        /\ abortController' = IF path = "async"
                              THEN NewController(abortController, id)
                              ELSE abortController
        /\ last' = Op("dispatch", path, A, S, id, "pending", NoState,
                      IF path = "throw" THEN next.err ELSE NoError, FALSE,
                      eff.result, Pre)
        /\ is' = Is(state')
        /\ UNCHANGED <<given, asyncMode, hasOnError, hasHooks>>

\* ------------------------------------------------------------ settlement

\* The promise a transition function returned settles (ok: it fulfils)
\* before any abort of its controller: Promise.race settles with it and the
\* reaction that runs the then-handler is queued.  Once the abort listener
\* has rejected the race, Promise.race drops what the returned promise
\* settles with: that settlement is no step of the engine.
Settle(i, ok) ==
    /\ i \in 1..Len(tasks)
    /\ tasks[i].out = "pending"
    /\ LET out == IF ok THEN "fulfilled" ELSE "rejected"
       IN /\ tasks' = [tasks EXCEPT ![i].out = out]
          /\ jobs' = Append(jobs, i)
          /\ last' = Op("settle", "none", NoAction, NoState, i, out, NoState,
                        NoError, tasks[i].aborted, "returned", Pre)
    /\ log' = <<>>
    /\ UNCHANGED <<given, asyncMode, hasOnError, hasHooks, is, state, transitioning,
                   abortController>>

\* A fulfilment handler that reads the published state again for its hooks
\* in place of the captured $state.
onFulfilledRereads(S, next, A, pub, flag) ==
    Effect(next, FALSE,
           CallOnExit(pub, next, A, pub, flag) \o CallOnEnter(pub, next, A, pub, flag)
               \o Publish(next, flag) \o SetTransitioning(FALSE, next),
           "returned", NoError)

\* A fulfilment handler without its transitioning.set(false).
onFulfilledKeepsFlag(S, next, A, pub, flag) ==
    Effect(next, flag,
           CallOnExit(S, next, A, pub, flag) \o CallOnEnter(S, next, A, pub, flag)
               \o Publish(next, flag),
           "returned", NoError)

\* next.then(next => { onExit?.(...); onEnter?.(...); state.set(next);
\*                     transitioning.set(false) }, ...)
onFulfilled(S, next, A, pub, flag) ==
    Effect(next, FALSE,
           CallOnExit(S, next, A, pub, flag) \o CallOnEnter(S, next, A, pub, flag)
               \o Publish(next, flag) \o SetTransitioning(FALSE, next),
           "returned", NoError)

\* A rejection handler that hands onError the state published when it runs
\* in place of the captured $state.
onRejectedLatest(error, S, A, oe, pub, flag) ==
    IF isAbortError(error)
    THEN Effect(pub, flag, <<>>, "returned", NoError)
    ELSE IF hasOnError
    THEN Effect(oe, FALSE,
                SetTransitioning(FALSE, pub) \o CallOnError(error, pub, A, oe, pub, FALSE)
                    \o Publish(oe, FALSE),
                "returned", NoError)
    ELSE Effect(pub, FALSE, SetTransitioning(FALSE, pub), "threw", error)

\* A rejection handler that publishes what onError returns before it writes
\* the transitioning store.
onRejectedPublishesFirst(error, S, A, oe, pub, flag) ==
    IF isAbortError(error)
    THEN Effect(pub, flag, <<>>, "returned", NoError)
    ELSE IF hasOnError
    THEN Effect(oe, FALSE,
                CallOnError(error, S, A, oe, pub, flag) \o Publish(oe, flag)
                    \o SetTransitioning(FALSE, oe),
                "returned", NoError)
    ELSE Effect(pub, FALSE, SetTransitioning(FALSE, pub), "threw", error)

\* next.then(..., error => { if (isAbortError(error)) return
\*     transitioning.set(false)
\*     if (onError) state.set(onError(error, $state, $action))
\*     else throw error })
onRejected(error, S, A, oe, pub, flag) ==
    IF isAbortError(error)
    THEN Effect(pub, flag, <<>>, "returned", NoError)
    ELSE IF hasOnError
    THEN Effect(oe, FALSE,
                SetTransitioning(FALSE, pub) \o CallOnError(error, S, A, oe, pub, FALSE)
                    \o Publish(oe, FALSE),
                "returned", NoError)
    ELSE Effect(pub, FALSE, SetTransitioning(FALSE, pub), "threw", error)

\* The oldest queued reaction runs: the then-handler of that task, the
\* promise having settled with v or with error, and onError answering oe
\* when it is called.
Then(v, error, oe) ==
    /\ jobs # <<>>
    /\ LET i == Head(jobs)
           t == tasks[i]
           eff == IF t.out = "fulfilled"
                  THEN onFulfilled(t.S, v, t.A, state, transitioning)
                  ELSE onRejected(error, t.S, t.A, oe, state, transitioning)
       IN /\ state' = eff.state
          /\ transitioning' = eff.transitioning
          /\ log' = eff.log
          /\ tasks' = Dropped(tasks, i)
          /\ jobs' = MovedAll(Tail(jobs), i)
          /\ abortController' = Moved(abortController, i)
          /\ last' = Op("then", IF i = Len(tasks) THEN "newest" ELSE "older",
                        t.A, t.S, i, t.out, v, error, t.aborted, eff.result, Pre)
    /\ is' = Is(state')
    /\ UNCHANGED <<given, asyncMode, hasOnError, hasHooks>>

\* ------------------------------------------------------- specification

\* The record of the construction: the initial state it was given and
\* whether the call had the three arguments (options before machine).
Created(initialState, maybeMachine) ==
    Op("create", IF maybeMachine THEN "options" ELSE "machine", NoAction,
       initialState, 0, "pending", NoState, NoError, FALSE, "returned",
       [state |-> NoState, transitioning |-> FALSE])

\* The options of a call that gives them (every such call gives hooks here;
\* asyncMode may be left out), and the {} passed on for a call that gives
\* none.
Undefined == "undefined"
Options ==
    [asyncMode : {"block", "abort", Undefined}, onError : BOOLEAN, hooks : {TRUE}]
NoOptions == [asyncMode |-> Undefined, onError |-> FALSE, hooks |-> FALSE]

\* A destructuring whose default is the other mode.
DestructuredAbort(options) ==
    IF options.asyncMode = Undefined THEN "abort" ELSE options.asyncMode

\* { asyncMode = "block", onError, hooks }: the default of the destructuring
Destructured(options) ==
    IF options.asyncMode = Undefined THEN "block" ELSE options.asyncMode

\* A construction whose transitioning store starts true.
NewStateMachineBusy(initialState, options) ==
    [state |-> initialState, transitioning |-> TRUE, abortController |-> 0,
     given |-> options, asyncMode |-> Destructured(options),
     hasOnError |-> options.onError, hasHooks |-> options.hooks,
     is |-> Is(initialState)]

\* _stateMachine(initialState, { asyncMode = "block", onError, hooks }, machine)
\* up to its return: writable(initialState), writable(false), no controller,
\* and the derived stores.
NewStateMachine(initialState, options) ==
    [state |-> initialState, transitioning |-> FALSE, abortController |-> 0,
     given |-> options, asyncMode |-> Destructured(options),
     hasOnError |-> options.onError, hasHooks |-> options.hooks,
     is |-> Is(initialState)]

\* stateMachine(initialState, machineOrOptions, maybeMachine?)
stateMachine(initialState, machineOrOptions, maybeMachine) ==
    IF maybeMachine THEN NewStateMachine(initialState, machineOrOptions)
    ELSE NewStateMachine(initialState, NoOptions)

Init ==
    \E initialState \in States, maybeMachine \in BOOLEAN :
      \E machineOrOptions \in IF maybeMachine THEN Options ELSE {NoOptions} :
        LET m == stateMachine(initialState, machineOrOptions, maybeMachine)
        IN /\ given = m.given
           /\ asyncMode = m.asyncMode
           /\ hasOnError = m.hasOnError
           /\ hasHooks = m.hasHooks
           /\ is = m.is
           /\ state = m.state
           /\ transitioning = m.transitioning
           /\ abortController = m.abortController
           /\ tasks = <<>>
           /\ jobs = <<>>
           /\ last = Created(initialState, maybeMachine)
           /\ log = <<>>

\* The answers the callbacks of one operation are asked for.
ReducerAnswers(S, A, flag) ==
    IF ~Blocked(flag) /\ Registered(S.type, A.type) THEN ReducerResults ELSE {Promise}

AsyncAnswers(S, A, r, flag) ==
    IF Path(S, A, r, flag) = "async" /\ HasHook(S.type, "onAsyncTransition")
    THEN Loading \cup {NoState} ELSE {NoState}

OnErrorAnswers(calls) == IF calls /\ hasOnError THEN Recovered ELSE {NoState}

\* What the promise at the head of the queue has settled with.
Values(out) == IF out = "fulfilled" THEN States ELSE {NoState}

Reasons(out) ==
    IF out = "rejected" THEN Errors
    ELSE IF out = "aborted" THEN {AbortError} ELSE {NoError}

DoDispatch ==
    \E A \in Actions :
      \E r \in ReducerAnswers(state, A, transitioning) :
        \E l \in AsyncAnswers(state, A, r, transitioning) :
          \E oe \in OnErrorAnswers(Path(state, A, r, transitioning) = "throw") :
            Dispatch(A, r, l, oe)

DoSettle == \E i \in 1..MaxTasks, ok \in BOOLEAN : Settle(i, ok)

DoThen ==
    /\ jobs # <<>>
    /\ \E v \in Values(tasks[Head(jobs)].out) :
         \E error \in Reasons(tasks[Head(jobs)].out) :
           \E oe \in OnErrorAnswers(~isAbortError(error) /\ error # NoError) :
             Then(v, error, oe)

Next == DoDispatch \/ DoSettle \/ DoThen

Spec == Init /\ [][Next]_vars

\* ------------------------------------------------------- hooks that throw

\* A hook call that throws error in place of returning.
CallThrows(kind, S, next, A, error, pub, flag) ==
    <<Ev(kind, S, next, A, error, NoState, pub, flag)>>

\* Whether dispatch, going the given way from S to next, calls hook h.
HookCalled(h, path, S, next) ==
    \/ path \in {"sync", "missing"} /\ h = "onExit" /\ HasHook(S.type, "onExit")
    \/ path \in {"sync", "missing"} /\ h = "onEnter" /\ HasHook(next.type, "onEnter")
    \/ path = "async" /\ h = "onAsyncTransition" /\ HasHook(S.type, "onAsyncTransition")

\* The try block up to the hook h that throws: in the promise branch
\* transitioning.set(true) has run before onAsyncTransition is called, in the
\* other branch onExit has run before onEnter is called.
UpToThrow(h, S, next, A, error, flag) ==
    IF h = "onAsyncTransition"
    THEN SetTransitioning(TRUE, S) \o CallThrows(h, S, NoState, A, error, S, TRUE)
    ELSE IF h = "onExit" THEN CallThrows(h, S, next, A, error, S, flag)
    ELSE CallOnExit(S, next, A, S, flag) \o CallThrows(h, S, next, A, error, S, flag)

\* dispatch($action) when hook h throws error inside the try block: the
\* catch block runs with the flag as the try block left it; next.then is
\* never reached, so no handler is attached to the promise and no controller
\* is made.
DispatchHookThrows(A, r, h, error, oe) ==
    LET S == state
        flag == transitioning
        next == Reduce(S, A, r)
        path == Path(S, A, r, flag)
        called == IF Registered(S.type, A.type)
                  THEN CallReducer(S, A, r.val, r.err, flag) ELSE <<>>
        ab == AbortPending(flag, tasks, jobs, abortController)
        now == IF h = "onAsyncTransition" THEN TRUE ELSE flag
        eff == CatchPath(error, S, A, oe, now)
    IN  /\ HookCalled(h, path, S, next.val)
        /\ state' = eff.state
        /\ transitioning' = eff.transitioning
        /\ log' = called \o UpToThrow(h, S, next.val, A, error, flag) \o eff.log
        /\ tasks' = ab.tasks
        /\ jobs' = ab.jobs
        /\ last' = Op("dispatch", "hook", A, S, 0, "pending", NoState, error, FALSE,
                      eff.result, Pre)
        /\ is' = Is(state')
        /\ UNCHANGED <<given, asyncMode, hasOnError, hasHooks, abortController>>

\* The fulfilment handler when onExit or onEnter throws: state.set(next) and
\* transitioning.set(false) are not reached and the promise next.then
\* returned rejects with the error, nothing handling it.
ThenHookThrows(v, h, error) ==
    /\ jobs # <<>>
    /\ LET i == Head(jobs)
           t == tasks[i]
       IN /\ t.out = "fulfilled"
          /\ HookCalled(h, "sync", t.S, v)
          /\ log' = IF h = "onExit"
                    THEN CallThrows(h, t.S, v, t.A, error, state, transitioning)
                    ELSE CallOnExit(t.S, v, t.A, state, transitioning)
                         \o CallThrows(h, t.S, v, t.A, error, state, transitioning)
          /\ tasks' = Dropped(tasks, i)
          /\ jobs' = MovedAll(Tail(jobs), i)
          /\ abortController' = Moved(abortController, i)
          /\ last' = Op("then", "hook", t.A, t.S, i, t.out, v, error, t.aborted,
                        "threw", Pre)
    /\ UNCHANGED <<given, asyncMode, hasOnError, hasHooks, is, state, transitioning>>

DoDispatchHookThrows ==
    \E A \in Actions, h \in {"onExit", "onEnter", "onAsyncTransition"} :
      \E r \in ReducerAnswers(state, A, transitioning) \ {Throw(e) : e \in Errors} :
        \E error \in Errors, oe \in OnErrorAnswers(TRUE) :
          /\ ~Blocked(transitioning)
          /\ DispatchHookThrows(A, r, h, error, oe)

DoThenHookThrows ==
    \E v \in States, h \in {"onExit", "onEnter"}, error \in Errors :
      ThenHookThrows(v, h, error)

NextFaulty == Next \/ DoDispatchHookThrows \/ DoThenHookThrows

\* The engine with hooks that may throw.
SpecFaulty == Init /\ [][NextFaulty]_vars

\* dispatch($action) whose transition function returns a state and whose
\* onExit or onEnter then throws, explored while fewer than MaxTasks
\* handlers are outstanding.
DoDispatchSyncHookThrows ==
    \E A \in Actions, h \in {"onExit", "onEnter"} :
      \E r \in {Value(v) : v \in States}, error \in Errors :
        \E oe \in OnErrorAnswers(TRUE) :
          /\ ~Blocked(transitioning)
          /\ Registered(state.type, A.type)
          /\ Len(tasks) < MaxTasks
          /\ DispatchHookThrows(A, r, h, error, oe)

NextSyncFaulty == Next \/ DoDispatchSyncHookThrows

\* The engine with onExit and onEnter hooks that may throw in the
\* synchronous branch of dispatch.
SpecSyncFaulty == Init /\ [][NextSyncFaulty]_vars

\* ------------------------------------------------- re-entrant dispatch

\* dispatch($action) whose transition function calls dispatch(B) before it
\* returns rout.  The inner call runs inside the callback of the outer
\* state.update: its own state.update reads the store, which still holds
\* the state S the outer call was given, and writes its result; the outer
\* callback then goes on with the $state it was called with and its return
\* value is written over the inner result.
DispatchReentrant(A, B, rin, rout) ==
    LET S == state
        flag == transitioning
        inner == Reduce(S, B, rin).val
        outer == rout.val
        ab == AbortPending(flag, tasks, jobs, abortController)
    IN  /\ ~Blocked(flag)
        /\ Registered(S.type, A.type)
        /\ Path(S, B, rin, flag) \in {"sync", "missing"}
        /\ Path(S, A, rout, flag) = "sync"
        /\ state' = outer
        /\ transitioning' = flag
        /\ log' = CallReducer(S, A, outer, NoError, flag)
                      \o (IF Registered(S.type, B.type)
                          THEN CallReducer(S, B, inner, NoError, flag) ELSE <<>>)
                      \o SyncPath(S, inner, B, flag).log
                      \o CallOnExit(S, outer, A, inner, flag)
                      \o CallOnEnter(S, outer, A, inner, flag)
                      \o Publish(outer, flag)
        /\ tasks' = ab.tasks
        /\ jobs' = ab.jobs
        /\ last' = Op("dispatch", "reentrant", A, S, 0, "pending", inner, NoError,
                      FALSE, "returned", Pre)
        /\ is' = Is(state')
        /\ UNCHANGED <<given, asyncMode, hasOnError, hasHooks, abortController>>

DoDispatchReentrant ==
    \E A \in Actions, B \in Actions :
      \E rin \in {Value(v) : v \in States}, rout \in {Value(v) : v \in States} :
        DispatchReentrant(A, B, rin, rout)

NextReentrant == Next \/ DoDispatchReentrant

\* The engine with transition functions that may dispatch.
SpecReentrant == Init /\ [][NextReentrant]_vars

\* ------------------------------------- promises that reject with AbortError

\* The promise at the head of the queue was rejected by the transition
\* function's own work with a DOMException named "AbortError" (a fetch the
\* user cancelled, say), not by the abort listener of the engine: its
\* rejection handler runs with that error.
DoThenUserAbort ==
    /\ jobs # <<>>
    /\ tasks[Head(jobs)].out = "rejected"
    /\ Then(NoState, AbortError, NoState)

NextUserAbort == Next \/ DoThenUserAbort

\* The engine with transition functions whose promise may reject with an
\* AbortError of their own.
SpecUserAbort == Init /\ [][NextUserAbort]_vars

\* ------------------------------------------- the light switch of the tests

\* Number of dispatches in one run of the light switch.
MaxDispatches == 4

\* if (state.level >= 3) return state
MaxLevel == 3

\* type State = { type: "on"; level: number } | { type: "off" }
Off == [type |-> "off"]
On(level) == [type |-> "on", level |-> level]

\* type Action = { type: "toggle" } | { type: "up" } | { type: "down" }
SwitchActions == [type : {"toggle", "up", "down"}]

\* Sync.machine: the pairs that have a transition function (off has no down).
SwitchRegistered(stateType, actionType) ==
    \/ stateType = "off" /\ actionType \in {"toggle", "up"}
    \/ stateType = "on" /\ actionType \in {"toggle", "up", "down"}

\* Sync.machine with a cap that is tested one level late.
SwitchMachineLateCap(S, A) ==
    IF S.type = "off" THEN On(1)
    ELSE IF A.type = "toggle" THEN Off
    ELSE IF A.type = "up"
    THEN (IF S.level > MaxLevel THEN S ELSE On(S.level + 1))
    ELSE (IF S.level = 1 THEN Off ELSE On(S.level - 1))

\* Sync.machine[S.type][A.type](S), for a registered pair.
SwitchMachine(S, A) ==
    IF S.type = "off" THEN On(1)
    ELSE IF A.type = "toggle" THEN Off
    ELSE IF A.type = "up"
    THEN (IF S.level >= MaxLevel THEN S ELSE On(S.level + 1))
    ELSE (IF S.level = 1 THEN Off ELSE On(S.level - 1))

\* Object.keys(Sync.machine) and the derived stores over them.
SwitchIs(st) == [type \in {"off", "on"} |-> st.type = type]

\* stateMachine<Sync.State, Sync.Action>({ type: "off" }, Sync.machine)
InitSwitch ==
    LET m == stateMachine(Off, NoOptions, FALSE)
    IN /\ given = m.given
       /\ asyncMode = m.asyncMode
       /\ hasOnError = m.hasOnError
       /\ hasHooks = m.hasHooks
       /\ is = SwitchIs(m.state)
       /\ state = m.state
       /\ transitioning = m.transitioning
       /\ abortController = m.abortController
       /\ tasks = <<>>
       /\ jobs = <<>>
       /\ last = Created(Off, FALSE)
       /\ log = <<>>

\* dispatch($action) on the light switch: every transition function returns
\* a plain state, so the call goes through the else branch; log keeps the
\* calls of the whole run, as the mocks of the tests do.
DispatchSwitch(A) ==
    LET S == state
        flag == transitioning
        registered == SwitchRegistered(S.type, A.type)
        next == IF registered THEN SwitchMachine(S, A) ELSE S
        called == IF registered THEN CallReducer(S, A, next, NoError, flag) ELSE <<>>
        eff == SyncPath(S, next, A, flag)
    IN  /\ ~Blocked(flag)
        /\ Len(SelectSeq(log, LAMBDA e : e.kind = "publish")) < MaxDispatches
        /\ state' = eff.state
        /\ transitioning' = eff.transitioning
        /\ log' = log \o called \o eff.log
        /\ last' = Op("dispatch", IF registered THEN "sync" ELSE "missing", A, S, 0,
                      "pending", NoState, NoError, FALSE, eff.result, Pre)
        /\ is' = SwitchIs(state')
        /\ UNCHANGED <<given, asyncMode, hasOnError, hasHooks, abortController,
                       tasks, jobs>>

DoDispatchSwitch == \E A \in SwitchActions : DispatchSwitch(A)

NextSwitch == DoDispatchSwitch

\* The light switch of the tests, run through the engine.
SpecSwitch == InitSwitch /\ [][NextSwitch]_vars

\* --------------------------------------------------------------- progress

\* The engine when every promise a transition function returned settles in
\* the end (unless an abort has rejected its race before) and the job queue
\* of the promises is drained: the reaction of a settled promise does run.
\* Nothing obliges the user to dispatch.
SpecLive == Init /\ [][Next]_vars /\ WF_vars(DoSettle) /\ WF_vars(DoThen)

\* ------------------------------------------------------------- claims

HookKinds == {"onExit", "onEnter", "onAsyncTransition"}

\* The positions of the log where a callback of the given kinds was called.
Calls(kinds) == {i \in 1..Len(log) : log[i].kind \in kinds}

\* The last operation was a dispatch that went the given way.
Dispatched(path) == last.op = "dispatch" /\ last.path = path

\* The last operation was the then-handler of a task whose promise settled
\* the given way.
Handled(out) == last.op = "then" /\ last.out = out

\* A task the engine still waits for: its handler has not run and its
\* promise was not rejected by an abort.
Live(t) == t.out # "aborted"

\* C1: in block mode a dispatch made while the transitioning flag is true is
\* discarded: it calls nothing (no transition function, no hook, no onError),
\* it returns normally, and it leaves the published state, the flag, the
\* pending promises, their queued handlers and the controller as they were,
\* so that everything that happens afterwards (the pending transition
\* settling and publishing its result) is what it would have been without
\* the call.
C1_BlockDiscards ==
    [][(last'.op = "dispatch" /\ asyncMode = "block" /\ transitioning)
        => /\ log' = <<>>
           /\ last'.result = "returned"
           /\ UNCHANGED engine]_vars

C1_Witness ==
    /\ Dispatched("discarded")
    /\ asyncMode = "block" /\ transitioning
    /\ Len(tasks) = 1 /\ tasks[1].out = "pending"

\* C2: in abort mode a transition that a later dispatch has superseded (its
\* controller was aborted) does nothing when its handler runs: no hook, no
\* publication, no write of the flag; and a handler that calls a hook,
\* publishes a state or writes the flag belongs to the most recently started
\* of the pending transitions.
C2_SupersededNeverActs ==
    (last.op = "then" /\ asyncMode = "abort")
        => /\ last.aborted => (log = <<>> /\ state = last.pre.state
                               /\ transitioning = last.pre.transitioning)
           /\ log # <<>> => last.path = "newest"

\* C3: the transitioning flag is true exactly when some async transition
\* has been started and has not settled yet (its handler has not run and it
\* was not aborted).
C3_FlagIffPending ==
    transitioning <=> (\E i \in 1..Len(tasks) : Live(tasks[i]))

\* C4: a dispatch for which the state's type has no transition function for
\* the action's type leaves the published state and the flag as they were
\* and calls no hook.
C4_MissingIsSilent ==
    Dispatched("missing")
        => /\ state = last.S
           /\ transitioning = last.pre.transitioning
           /\ Calls(HookKinds) = {}

\* C5: on a synchronous transition from S1 on A to S2, onExit of S1.type (if
\* defined) is called once with (S1, S2, A), then onEnter of S2.type (if
\* defined) once with (S1, S2, A), the published state being S1 at both
\* calls; S2 is published after them.
C5_SyncHooksThenPublish ==
    Dispatched("sync")
        => LET S1 == last.S
               S2 == log[1].ret
               exits == Calls({"onExit"})
               enters == Calls({"onEnter"})
               writes == Calls({"publish"})
           IN /\ log[1].kind = "reducer" /\ log[1].s1 = S1 /\ log[1].act = last.A
              /\ Cardinality(exits) = IF HasHook(S1.type, "onExit") THEN 1 ELSE 0
              /\ Cardinality(enters) = IF HasHook(S2.type, "onEnter") THEN 1 ELSE 0
              /\ \A i \in exits \cup enters :
                    /\ log[i].s1 = S1 /\ log[i].s2 = S2 /\ log[i].act = last.A
                    /\ log[i].pub = S1
                    /\ \A j \in writes : i < j
              /\ \A i \in exits : \A j \in enters : i < j
              /\ Cardinality(writes) = 1
              /\ \A j \in writes : log[j].ret = S2
              /\ state = S2

C5_Witness ==
    /\ Dispatched("sync")
    /\ Calls({"onExit"}) # {} /\ Calls({"onEnter"}) # {}
    /\ state # last.S

\* C6: a dispatch that is not discarded and whose transition function
\* returns a plain state never shows the transitioning flag true: not to a
\* callback during the call, and not when it returns.
C6_SyncFlagFalse ==
    Dispatched("sync")
        => /\ ~transitioning
           /\ \A i \in 1..Len(log) : ~log[i].flag

\* C7: when the transition function returns a promise the flag is true when
\* dispatch returns; when the promise of a transition that was not
\* superseded fulfils with R, its handler leaves R published and the flag
\* false.
C7_AsyncFlagAndResult ==
    /\ Dispatched("async") => transitioning
    /\ (Handled("fulfilled") /\ ~last.aborted)
           => (state = last.val /\ ~transitioning)

C7_Witness ==
    /\ Handled("fulfilled") /\ ~last.aborted
    /\ last.pre.transitioning
    /\ last.pre.state # last.val

\* C8: when an async transition starts from S and onAsyncTransition of S.type
\* returns a state L, L is published when dispatch returns, the promise not
\* having settled yet; and a pending transition that started from S with no
\* hook, or whose hook returned nothing, has S published for as long as it is
\* pending.
C8_InterimThenStays ==
    /\ Dispatched("async")
           => /\ tasks[last.id].out = "pending"
              /\ \A i \in Calls({"onAsyncTransition"}) :
                    log[i].ret # NoState => state = log[i].ret
    /\ \A k \in 1..Len(tasks) :
          (tasks[k].out = "pending" /\ tasks[k].loadingState = NoState)
              => state = tasks[k].S

\* C9: when the transition function throws from S on A: with onError,
\* dispatch returns normally, onError is called once with (error, S, A) and
\* what it returns is the published state; without onError, dispatch throws
\* that error to its caller.
C9_SyncThrow ==
    Dispatched("throw")
        => LET caught == Calls({"onError"})
           IN IF hasOnError
              THEN /\ last.result = "returned"
                   /\ Cardinality(caught) = 1
                   /\ \A i \in caught :
                         /\ log[i].err = last.err /\ log[i].s1 = last.S
                         /\ log[i].act = last.A /\ state = log[i].ret
              ELSE last.result = "threw" /\ caught = {}

C9_Witness ==
    /\ Dispatched("throw") /\ hasOnError
    /\ last.result = "returned"
    /\ state # last.S

\* C10: when the promise of an async transition from S on A that was not
\* superseded rejects and onError is configured, its handler leaves the flag
\* false and publishes onError(error, S, A), S being the state captured when
\* the transition started, not the interim state and not the state published
\* when the promise settled.
C10_AsyncFailureRecovers ==
    (Handled("rejected") /\ ~last.aborted /\ hasOnError)
        => LET caught == Calls({"onError"})
           IN /\ ~transitioning
              /\ Cardinality(caught) = 1
              /\ \A i \in caught :
                    /\ log[i].err = last.err /\ log[i].s1 = last.S
                    /\ log[i].act = last.A /\ state = log[i].ret

C10_Witness ==
    /\ Handled("rejected") /\ ~last.aborted /\ hasOnError
    /\ last.pre.transitioning
    /\ last.S # last.pre.state
    /\ state # last.pre.state

\* The last operation met a failure that is not a cancellation: a throw of
\* the transition function or of a hook, or a rejection of the promise.
Failed ==
    /\ last.op \in {"dispatch", "then"}
    /\ last.err # NoError /\ ~isAbortError(last.err)

\* C11: once a failure of a transition (thrown by the transition function,
\* by a hook called for it, or the rejection of its promise) has been
\* recovered by onError or propagated, the transitioning flag is false.
C11_FailureClearsFlag == Failed => ~transitioning

\* C12: when no onError is configured and a transition fails (the transition
\* function throws, or its promise rejects), the state published after the
\* failure is the state that was published before that dispatch, also when
\* onAsyncTransition is defined for the starting state.
C12_FailureKeepsState ==
    (~hasOnError /\ (Dispatched("throw") \/ (Handled("rejected") /\ ~last.aborted)))
        => state = last.S

\* C13: when the promise of a transition from S on A that was not superseded
\* fulfils with R, its handler calls onExit of S.type (if defined) with
\* (S, R, A), then onEnter of R.type (if defined) with (S, R, A), then
\* publishes R, then sets the flag false; S is the state captured when the
\* transition started, whatever has been published since.
C13_AsyncHooksThenPublish ==
    (Handled("fulfilled") /\ ~last.aborted)
        => LET S == last.S
               R == last.val
               exits == Calls({"onExit"})
               enters == Calls({"onEnter"})
               writes == Calls({"publish"})
               clears == Calls({"transitioning"})
           IN /\ Cardinality(exits) = IF HasHook(S.type, "onExit") THEN 1 ELSE 0
              /\ Cardinality(enters) = IF HasHook(R.type, "onEnter") THEN 1 ELSE 0
              /\ \A i \in exits \cup enters :
                    /\ log[i].s1 = S /\ log[i].s2 = R /\ log[i].act = last.A
                    /\ \A j \in writes : i < j
              /\ \A i \in exits : \A j \in enters : i < j
              /\ Cardinality(writes) = 1 /\ Cardinality(clears) = 1
              /\ \A j \in writes : log[j].ret = R /\ \A c \in clears : j < c
              /\ \A c \in clears : ~log[c].flag
              /\ state = R /\ ~transitioning

C13_Witness ==
    /\ Handled("fulfilled") /\ ~last.aborted
    /\ last.S # last.pre.state
    /\ Calls({"onExit"}) # {} /\ Calls({"onEnter"}) # {}

C15_AbortRestartsFromCurrent ==
    /\ []((last.op = "dispatch" /\ asyncMode = "abort" /\ last.pre.transitioning)
            => /\ last.S = last.pre.state
               /\ \A i \in Calls({"reducer", "onExit", "onAsyncTransition"}) :
                     log[i].s1 = last.pre.state
               /\ \A k \in 1..Len(tasks) : k # last.id => tasks[k].out # "pending"
               /\ Dispatched("async") => transitioning)
    /\ [][(/\ asyncMode = "abort" /\ transitioning
           /\ Len(tasks') > 0 /\ tasks'[Len(tasks')].out = "pending")
              => transitioning']_vars

\* C17: at most one async transition is live (started, its promise neither
\* settled nor cancelled); in abort mode the controller is that of the live
\* transition, which is the most recently started one.
C17_OneLiveTransition ==
    LET live == {k \in 1..Len(tasks) : tasks[k].out = "pending"}
    IN /\ Cardinality(live) <= 1
       /\ asyncMode = "abort"
             => \A k \in live : abortController = k /\ k = Len(tasks)

\* The last of a non-empty set of log positions.
Latest(positions) == CHOOSE m \in positions : \A k \in positions : k <= m

\* C16: the state a dispatch publishes is computed from the state that is
\* published immediately before its publication, also when another dispatch
\* ran inside its transition function: the state the dispatch read is the
\* one written last before its own write.
C16_DispatchesSerialized ==
    (last.op = "dispatch" /\ Calls({"publish"}) # {})
        => LET writes == Calls({"publish"})
               earlier == writes \ {Latest(writes)}
               before == IF earlier = {} THEN last.pre.state
                         ELSE log[Latest(earlier)].ret
           IN last.S = before

\* C18: for every key d of the machine object, whenever the stores can be
\* read (after construction, after every dispatch with or without an
\* interim state, after every handler), is[d] holds true exactly when the
\* type of the published state is d.
C18_IsFollowsState ==
    \A d \in MachineKeys : d \in DOMAIN is /\ (is[d] <=> state.type = d)

C18_Witness ==
    /\ last.op = "then" /\ last.pre.state.type = "busy" /\ state.type = "idle"
    /\ is["idle"] /\ ~is["busy"]

\* C19: the object is has a store for every state type the machine can be
\* in, the types with no entry in the machine object included.
C19_IsCoversEveryState == state.type \in DOMAIN is

\* C20: right after construction, with the two-argument or the
\* three-argument call, the published state is the initial state given and
\* the transitioning flag is false.
C20_StartsAtInitialState ==
    last.op = "create" => (state = last.S /\ ~transitioning)

C20_Witness ==
    /\ last.op = "create" /\ last.path = "machine"
    /\ state = [type |-> "busy"] /\ asyncMode = "block" /\ ~hasOnError

\* C21: an engine constructed without options, or with options that do not
\* set asyncMode, discards every dispatch made while the flag is true: the
\* call invokes nothing and leaves the stores, the pending promise and its
\* handler as they were.
C21_DefaultIsBlock ==
    [][(last'.op = "dispatch" /\ given.asyncMode = Undefined /\ transitioning)
        => /\ last'.path = "discarded"
           /\ log' = <<>>
           /\ UNCHANGED engine]_vars

C21_Witness ==
    /\ Dispatched("discarded") /\ given.asyncMode = Undefined /\ given.hooks
    /\ transitioning /\ Len(tasks) = 1 /\ tasks[1].out = "pending"

\* C22: the light switch started at off: toggle in off publishes on with
\* level 1; up in on raises the level by one but not above 3, and after any
\* sequence of dispatches the level of on is within 1..3; down in on with
\* level 1 publishes off; down in off leaves off.
C22_LightSwitch ==
    /\ state = Off \/ (state.type = "on" /\ state.level \in 1..3)
    /\ last.op = "dispatch"
          => /\ (last.S = Off /\ last.A.type = "toggle") => state = On(1)
             /\ (last.S.type = "on" /\ last.A.type = "up")
                    => state = On(IF last.S.level < 3 THEN last.S.level + 1 ELSE 3)
             /\ (last.S = On(1) /\ last.A.type = "down") => state = Off
             /\ (last.S = Off /\ last.A.type = "down") => state = Off

C22_Witness ==
    /\ last.op = "dispatch" /\ last.A.type = "up"
    /\ last.S = On(3) /\ state = On(3)

\* C23: if every promise returned by a transition function settles in the
\* end and dispatches stop arriving, then whenever the transitioning flag is
\* true it is false again later, in both modes.
C23_FlagClearsInTheEnd ==
    (<>[][last'.op # "dispatch"]_vars) => (transitioning ~> ~transitioning)

\* C24: when the handler of a transition that was not superseded runs, a
\* fulfilment publishes the resulting state first and writes the
\* transitioning store false second; a failure writes the transitioning
\* store false first, then calls onError and publishes what it returns.
C24_SettlementOrder ==
    (last.op = "then" /\ ~last.aborted) =>
        LET pubs == Calls({"publish"})
            sets == Calls({"transitioning"})
            errs == Calls({"onError"})
        IN  /\ last.out = "fulfilled" =>
                /\ Cardinality(pubs) = 1 /\ Cardinality(sets) = 1
                /\ \A p \in pubs, q \in sets :
                      /\ p < q
                      /\ log[p].ret = last.val
                      /\ log[q].flag = FALSE /\ log[q].pub = last.val
            /\ (last.out = "rejected" /\ hasOnError) =>
                /\ Cardinality(pubs) = 1 /\ Cardinality(sets) = 1
                /\ Cardinality(errs) = 1
                /\ \A q \in sets, e \in errs, p \in pubs :
                      /\ q < e /\ e < p
                      /\ log[q].flag = FALSE /\ log[q].pub = last.pre.state
                      /\ log[e].flag = FALSE
                      /\ log[p].ret = log[e].ret /\ log[p].flag = FALSE

C24_Witness ==
    /\ Handled("rejected") /\ ~last.aborted /\ hasOnError
    /\ last.pre.transitioning /\ ~transitioning
    /\ Calls({"publish"}) # {} /\ state # last.pre.state

\* C25: the dispatch of an async transition, which may publish the interim
\* state onAsyncTransition returned, calls no onExit and no onEnter; the
\* handler of the transition calls onExit at most once, on fulfilment only,
\* and it is the onExit of the state captured at dispatch, never that of the
\* interim state published in between.
C25_InterimFiresNoHooks ==
    /\ Dispatched("async") => Calls({"onExit", "onEnter"}) = {}
    /\ Handled("fulfilled") =>
          /\ Cardinality(Calls({"onExit"})) =
                 IF HasHook(last.S.type, "onExit") THEN 1 ELSE 0
          /\ \A i \in Calls({"onExit"}) : log[i].s1 = last.S
          /\ \A i \in Calls({"onEnter"}) : log[i].s2 = last.val
    /\ (last.op = "then" /\ last.out # "fulfilled") =>
          Calls({"onExit", "onEnter"}) = {}

C25_Witness ==
    /\ Handled("fulfilled") /\ ~last.aborted
    /\ last.pre.state \in Loading /\ last.pre.state.type # last.S.type
    /\ HasHook(last.pre.state.type, "onExit")
    /\ Calls({"onExit"}) # {}

\* C26: a dispatch that is not discarded and whose transition function
\* returns a state calls onExit of the starting state and onEnter of the
\* resulting state exactly once each (where the hook is defined), with the
\* starting state, the resulting state and the action, also when the
\* resulting state is the starting state.
C26_SyncHooksOnceEach ==
    Dispatched("sync") =>
        /\ \E r \in Calls({"reducer"}) : log[r].ret = state
        /\ \A h \in {"onExit", "onEnter"} :
              LET of == IF h = "onExit" THEN last.S ELSE state
                  calls == Calls({h})
              IN  /\ Cardinality(calls) = IF HasHook(of.type, h) THEN 1 ELSE 0
                  /\ \A i \in calls :
                        /\ log[i].s1 = last.S /\ log[i].s2 = state
                        /\ log[i].act = last.A

C26_Witness ==
    /\ Dispatched("sync") /\ state = last.S
    /\ Cardinality(Calls({"onExit"})) = 1 /\ Cardinality(Calls({"onEnter"})) = 1

\* C27: in block mode the handler of a promise that was rejected, with
\* whatever error, writes the transitioning store false and either
\* publishes what onError returns or throws the error on.
C27_BlockNeverIgnoresFailure ==
    (Handled("rejected") /\ asyncMode = "block") =>
        /\ ~transitioning
        /\ IF hasOnError
           THEN /\ last.result = "returned"
                /\ \E e \in Calls({"onError"}) :
                      log[e].err = last.err /\ state = log[e].ret
           ELSE last.result = "threw"

\* C28: in block mode, from the return of the dispatch that started an
\* async transition until its handler runs, the published state is the
\* interim state when onAsyncTransition returned one and the state captured
\* at dispatch otherwise, whatever is dispatched meanwhile; the transition
\* is the only one and the flag is true.
C28_BlockKeepsShownState ==
    (asyncMode = "block" /\ tasks # <<>>) =>
        /\ Len(tasks) = 1
        /\ transitioning
        /\ state = IF tasks[1].loadingState # NoState
                   THEN tasks[1].loadingState ELSE tasks[1].S

C28_Witness ==
    /\ Dispatched("discarded") /\ asyncMode = "block"
    /\ Len(tasks) = 1 /\ tasks[1].out = "fulfilled"
    /\ tasks[1].loadingState # NoState
    /\ state = tasks[1].loadingState /\ state # tasks[1].S

\* C29: with onError given, when the transition function returned a state
\* S2 and onExit or onEnter then throws, dispatch returns normally, onError
\* is called once with the error, the starting state and the action, and
\* the one value published is what onError returned: S2 is not published.
C29_SyncHookThrowRecovers ==
    (/\ Dispatched("hook") /\ hasOnError
     /\ \E r \in Calls({"reducer"}) : log[r].ret # NoState
     /\ \E h \in Calls({"onExit", "onEnter"}) : log[h].err # NoError) =>
        /\ last.result = "returned"
        /\ Cardinality(Calls({"onError"})) = 1
        /\ Cardinality(Calls({"publish"})) = 1
        /\ \A e \in Calls({"onError"}), p \in Calls({"publish"}) :
              /\ log[e].err = last.err /\ log[e].s1 = last.S
              /\ log[e].act = last.A
              /\ \A h \in Calls({"onExit", "onEnter"}) : h < e
              /\ e < p
              /\ log[p].ret = log[e].ret /\ state = log[e].ret
        /\ transitioning = last.pre.transitioning

C29_Witness ==
    /\ Dispatched("hook") /\ hasOnError /\ last.result = "returned"
    /\ \E r \in Calls({"reducer"}) :
          /\ log[r].ret # NoState /\ log[r].ret # state
          /\ log[r].ret # last.S
    /\ \E h \in Calls({"onEnter"}) : log[h].err # NoError
    /\ state # last.S

====
